---- MODULE Spec2Model ----
(***************************************************************************)
(* Nested comments of cdn-blogger: the comments / comment_flags tables     *)
(* with their triggers (SUPABASE_COMMENTS_TAGS_MIGRATION.sql and the flag  *)
(* migration), the comment service (lib/services/commentService.ts), the   *)
(* moderation service (lib/services/moderationService.ts) and the tree     *)
(* utilities (lib/schemaUtils.ts).                                         *)
(*                                                                         *)
(* Identifiers are naturals (gen_random_uuid() is modelled by a counter    *)
(* that never reuses a value), NULL is 0.  A text value is abstracted to   *)
(* the pair [ws, body]: the number of surrounding whitespace characters    *)
(* and the number of characters that survive trim().                       *)
(***************************************************************************)
EXTENDS Integers, Sequences, FiniteSets, TLC

\* ------------------------------------------------------------------ bounds
NumClients == 3          \* concurrent service requests (one call each)
NumUsers   == 3          \* distinct users that may flag
MaxPathLen == 3          \* longest path a parent_id change may build
MaxNow     == 3          \* last instant of the clock
MaxList    == 3          \* longest flat comment list handed to the tree utilities
MaxForest  == 12         \* most comments of a table handed to the backfill

\* --------------------------------------------------------------- constants
NULL == 0
MAX_LENGTH == 10000
AUTO_FLAG_THRESHOLD == 3
DEFAULT_MODERATION_QUEUE_LIMIT == 50
max_depth == 10

Clients    == 1..NumClients
Users      == 1..NumUsers
Posts      == {1, 2}                 \* rows of the posts table
PostIds    == Posts \cup {3}         \* post ids a caller may send
MaxId      == NumClients + 1
CommentIds == 1..MaxId               \* comment ids a caller may send

ModerationStatus == {"pending", "approved", "flagged", "rejected"}

\* -------------------------------------------------------------- text values
Str(w, b) == [ws |-> w, body |-> b]
Length(s) == s.ws + s.body
Trim(s)   == Str(0, s.body)

ContentInputs == {Str(0, 0), Str(3, 0), Str(1, MAX_LENGTH), Str(0, MAX_LENGTH + 1)}
AuthorInputs  == {Str(0, 0), Str(2, 0), Str(1, 3)}

\* validateCommentContent: "valid", or the error message
validateCommentContent(content) ==
  IF Length(content) = 0 THEN "Content must be a non-empty string"
  ELSE IF Length(Trim(content)) = 0 THEN "Content cannot be empty"
  ELSE IF Length(Trim(content)) > MAX_LENGTH THEN "Content exceeds maximum length"
  ELSE "valid"

\* processCommentContent: [result, error]; result.original is the raw input
processCommentContent(content) ==
  IF validateCommentContent(content) # "valid"
  THEN [ok |-> FALSE, original |-> content, error |-> validateCommentContent(content)]
  ELSE [ok |-> TRUE, original |-> content, error |-> "none"]

\* ------------------------------------------------------------------- state
VARIABLES
  comments,        \* the comments table: id -> row
  comment_flags,   \* the comment_flags table: sequence of rows, in insertion order
  nextId,          \* next value of gen_random_uuid() for comments
  now,             \* timezone('utc', now()) / new Date()
  pc,              \* per request: position in createComment / flagComment
  req,             \* per request: the input it still holds
  res              \* per request: the code of the result it returned

vars == <<comments, comment_flags, nextId, now, pc, req, res>>

NoReq == [post_id |-> NULL, parent_id |-> NULL, content |-> Str(0, 0), author_name |-> Str(0, 0),
          comment_id |-> NULL, flagged_by |-> NULL, moderation_notes |-> NULL, rows |-> <<>>]

\* ------------------------------------------------------------ table helpers
Ids == DOMAIN comments

\* a table whose moderation_status column defaults to approved
NewRowApproved(id, post, parent, path, content, author, t) ==
  [ id                |-> id,
    post_id           |-> post,
    parent_id         |-> parent,
    path              |-> path,
    content           |-> content,
    author_name       |-> author,
    moderation_status |-> "approved",
    flags_count       |-> 0,
    moderation_notes  |-> NULL,
    is_deleted        |-> FALSE,
    reply_count       |-> 0,
    created_at        |-> t,
    updated_at        |-> t,
    deleted_at        |-> NULL ]

\* a row as the INSERT of createComment and the column defaults produce it
NewRow(id, post, parent, path, content, author, t) ==
  [ id                |-> id,
    post_id           |-> post,
    parent_id         |-> parent,
    path              |-> path,
    content           |-> content,
    author_name       |-> author,
    moderation_status |-> "pending",
    flags_count       |-> 0,
    moderation_notes  |-> NULL,
    is_deleted        |-> FALSE,
    reply_count       |-> 0,
    created_at        |-> t,
    updated_at        |-> t,
    deleted_at        |-> NULL ]

\* BEFORE UPDATE trigger update_comments_updated_at: every UPDATE of a row stamps it
update_updated_at_column(row, t) == [row EXCEPT !.updated_at = t]

\* BEFORE INSERT trigger set_comment_path; <<>> stands for the NULL of an empty subquery
update_comment_path(cs, id, parent) ==
  IF parent = NULL THEN <<id>>
  ELSE IF parent \in DOMAIN cs THEN Append(cs[parent].path, id)
  ELSE <<>>

\* a lost update: the count written from a stale read instead of reply_count + 1
increment_reply_count_stale(cs, parent, t) ==
  IF parent # NULL /\ parent \in DOMAIN cs
  THEN [cs EXCEPT ![parent] =
          update_updated_at_column([@ EXCEPT !.reply_count = 1], t)]
  ELSE cs

\* the count kept as a count of descendants: every row of the parent's path incremented
increment_reply_count_ancestors(cs, parent, t) ==
  IF parent # NULL /\ parent \in DOMAIN cs
  THEN [i \in DOMAIN cs |->
          IF \E k \in 1..Len(cs[parent].path) : cs[parent].path[k] = i
          THEN update_updated_at_column([cs[i] EXCEPT !.reply_count = @ + 1], t)
          ELSE cs[i]]
  ELSE cs

\* AFTER INSERT trigger increment_parent_reply_count
increment_reply_count(cs, parent, t) ==
  IF parent # NULL /\ parent \in DOMAIN cs
  THEN [cs EXCEPT ![parent] =
          update_updated_at_column([@ EXCEPT !.reply_count = @ + 1], t)]
  ELSE cs

\* the decrement without its floor (no `AND reply_count > 0`)
decrement_reply_count_unfloored(cs, parent, t) ==
  IF parent # NULL /\ parent \in DOMAIN cs
  THEN [cs EXCEPT ![parent] =
          update_updated_at_column([@ EXCEPT !.reply_count = @ - 1], t)]
  ELSE cs

\* AFTER DELETE trigger decrement_parent_reply_count (and the decrement of the reparent trigger)
decrement_reply_count(cs, parent, t) ==
  IF parent # NULL /\ parent \in DOMAIN cs /\ cs[parent].reply_count > 0
  THEN [cs EXCEPT ![parent] =
          update_updated_at_column([@ EXCEPT !.reply_count = @ - 1], t)]
  ELSE cs

\* INSERT INTO comments: the table after the insert, or the table unchanged when the
\* insert fails (parent_id foreign key / path NOT NULL when the parent row is gone,
\* post_id foreign key)
InsertSucceeds(cs, post, parent) ==
  /\ post \in Posts
  /\ parent # NULL => parent \in DOMAIN cs

InsertComment(cs, id, post, parent, content, author, t) ==
  LET row  == NewRow(id, post, parent, update_comment_path(cs, id, parent), content, author, t)
      with == [i \in DOMAIN cs \cup {id} |-> IF i = id THEN row ELSE cs[i]]
  IN  increment_reply_count(with, parent, t)

\* ------------------------------------------------------------ createComment
\* up to the first await and the posts query: validation, then the post lookup
CreateBegin(p) ==
  /\ pc[p] = "start"
  /\ \E content \in ContentInputs, author \in AuthorInputs :
       IF ~processCommentContent(content).ok \/ Length(Trim(author)) = 0
       THEN /\ pc' = [pc EXCEPT ![p] = "done"]
            /\ res' = [res EXCEPT ![p] = "INVALID_INPUT"]
            /\ req' = req
       ELSE \E post \in PostIds, parent \in {NULL} \cup CommentIds :
              IF post \notin Posts
              THEN /\ pc' = [pc EXCEPT ![p] = "done"]
                   /\ res' = [res EXCEPT ![p] = "POST_NOT_FOUND"]
                   /\ req' = req
              ELSE /\ pc' = [pc EXCEPT ![p] = IF parent # NULL THEN "lookupParent" ELSE "insert"]
                   /\ req' = [req EXCEPT ![p] =
                                [NoReq EXCEPT !.post_id = post, !.parent_id = parent,
                                              !.content = processCommentContent(content).original,
                                              !.author_name = Trim(author)]]
                   /\ res' = res
  /\ UNCHANGED <<comments, comment_flags, nextId, now>>

\* the row written before the parent's post is compared
CreateLookupParentWritesFirst(p) ==
  /\ pc[p] = "lookupParent"
  /\ IF req[p].parent_id \notin Ids
     THEN /\ pc' = [pc EXCEPT ![p] = "done"]
          /\ res' = [res EXCEPT ![p] = "PARENT_NOT_FOUND"]
          /\ req' = [req EXCEPT ![p] = NoReq]
          /\ UNCHANGED <<comments, nextId>>
     ELSE IF comments[req[p].parent_id].post_id # req[p].post_id
     THEN /\ pc' = [pc EXCEPT ![p] = "done"]
          /\ res' = [res EXCEPT ![p] = "PARENT_POST_MISMATCH"]
          /\ req' = [req EXCEPT ![p] = NoReq]
          /\ comments' = InsertComment(comments, nextId, req[p].post_id, req[p].parent_id,
                                       req[p].content, req[p].author_name, now)
          /\ nextId' = nextId + 1
     ELSE /\ pc' = [pc EXCEPT ![p] = "insert"]
          /\ UNCHANGED <<req, res, comments, nextId>>
  /\ UNCHANGED <<comment_flags, now>>

\* the parent lookup with .eq('is_deleted', false): a deleted parent is not found
CreateLookupParentRejectsDeleted(p) ==
  /\ pc[p] = "lookupParent"
  /\ IF req[p].parent_id \notin Ids \/ comments[req[p].parent_id].is_deleted
     THEN /\ pc' = [pc EXCEPT ![p] = "done"]
          /\ res' = [res EXCEPT ![p] = "PARENT_NOT_FOUND"]
          /\ req' = [req EXCEPT ![p] = NoReq]
     ELSE IF comments[req[p].parent_id].post_id # req[p].post_id
     THEN /\ pc' = [pc EXCEPT ![p] = "done"]
          /\ res' = [res EXCEPT ![p] = "PARENT_POST_MISMATCH"]
          /\ req' = [req EXCEPT ![p] = NoReq]
     ELSE /\ pc' = [pc EXCEPT ![p] = "insert"]
          /\ UNCHANGED <<req, res>>
  /\ UNCHANGED <<comments, comment_flags, nextId, now>>

\* the parent lookup: .select('id, post_id, path').eq('id', parent_id).single()
CreateLookupParent(p) ==
  /\ pc[p] = "lookupParent"
  /\ IF req[p].parent_id \notin Ids
     THEN /\ pc' = [pc EXCEPT ![p] = "done"]
          /\ res' = [res EXCEPT ![p] = "PARENT_NOT_FOUND"]
          /\ req' = [req EXCEPT ![p] = NoReq]
     ELSE IF comments[req[p].parent_id].post_id # req[p].post_id
     THEN /\ pc' = [pc EXCEPT ![p] = "done"]
          /\ res' = [res EXCEPT ![p] = "PARENT_POST_MISMATCH"]
          /\ req' = [req EXCEPT ![p] = NoReq]
     ELSE /\ pc' = [pc EXCEPT ![p] = "insert"]
          /\ UNCHANGED <<req, res>>
  /\ UNCHANGED <<comments, comment_flags, nextId, now>>

\* the insert with its triggers, one statement of the database
CreateInsert(p) ==
  /\ pc[p] = "insert"
  /\ IF InsertSucceeds(comments, req[p].post_id, req[p].parent_id)
     THEN /\ comments' = InsertComment(comments, nextId, req[p].post_id, req[p].parent_id,
                                       req[p].content, req[p].author_name, now)
          /\ nextId' = nextId + 1
          /\ res' = [res EXCEPT ![p] = "ok"]
     ELSE /\ UNCHANGED <<comments, nextId>>
          /\ res' = [res EXCEPT ![p] = "INSERT_FAILED"]
  /\ pc' = [pc EXCEPT ![p] = "done"]
  /\ req' = [req EXCEPT ![p] = NoReq]
  /\ UNCHANGED <<comment_flags, now>>

\* -------------------------------------------------------- softDeleteComment
\* the soft delete written as a reset of the row's place in the thread
SoftDeleteRowDetaches(row, t) ==
  update_updated_at_column(
    [row EXCEPT !.is_deleted = TRUE, !.deleted_at = t, !.parent_id = NULL, !.path = <<row.id>>], t)

\* .update({is_deleted: true, deleted_at, updated_at}).eq('id', commentId)
SoftDeleteRow(row, t) ==
  update_updated_at_column([row EXCEPT !.is_deleted = TRUE, !.deleted_at = t], t)

SoftDeleteResult(c) == IF c \in Ids THEN "ok" ELSE "DELETE_FAILED"

SoftDeleteComment(c) ==
  /\ c \in Ids
  /\ comments' = [comments EXCEPT ![c] = SoftDeleteRow(@, now)]
  /\ UNCHANGED <<comment_flags, nextId, now, pc, req, res>>

\* ------------------------------------------------- UPDATE comments SET parent_id
\* BEFORE UPDATE trigger update_reply_count_on_update, fired when parent_id changes.
\* The new parent must exist (foreign key).  Naming the row itself as its parent
\* makes the trigger update the row under update, which the database rejects.
update_reply_count_on_parent_change(cs, c, n, t) ==
  LET dec  == decrement_reply_count(cs, cs[c].parent_id, t)
      inc  == increment_reply_count(dec, n, t)
      path == IF n # NULL THEN Append(inc[n].path, c) ELSE <<c>>
  IN  [inc EXCEPT ![c] = update_updated_at_column([@ EXCEPT !.parent_id = n, !.path = path], t)]

UpdateParentId(c, n) ==
  /\ c \in Ids
  /\ n \in {NULL} \cup Ids
  /\ n # comments[c].parent_id
  /\ n # c
  /\ Len(update_reply_count_on_parent_change(comments, c, n, now)[c].path) <= MaxPathLen
  /\ comments' = update_reply_count_on_parent_change(comments, c, n, now)
  /\ UNCHANGED <<comment_flags, nextId, now, pc, req, res>>

\* ------------------------------------------------------ DELETE FROM comments
\* parent_id ... ON DELETE CASCADE removes the replies of a removed row, and
\* comment_flags.comment_id ... ON DELETE CASCADE its flags
RECURSIVE Cascade(_, _)
Cascade(cs, S) ==
  LET T == S \cup {d \in DOMAIN cs : cs[d].parent_id \in S}
  IN  IF T = S THEN S ELSE Cascade(cs, T)

DeleteRows(cs, c, t) ==
  LET gone == Cascade(cs, {c})
      rest == [i \in DOMAIN cs \ gone |-> cs[i]]
  IN  decrement_reply_count(rest, cs[c].parent_id, t)

DeleteComment(c) ==
  /\ c \in Ids
  /\ comments' = DeleteRows(comments, c, now)
  /\ comment_flags' = SelectSeq(comment_flags, LAMBDA f : f.comment_id \notin Cascade(comments, {c}))
  /\ UNCHANGED <<nextId, now, pc, req, res>>

\* ------------------------------------------------------ backfill of the paths
\* UPDATE comments SET path = ARRAY[id]
\* WHERE parent_id IS NULL AND (path IS NULL OR path = ARRAY[]::UUID[])
BackfillTopLevelRows(cs, t) ==
  [c \in DOMAIN cs |->
     IF cs[c].parent_id = NULL /\ cs[c].path = <<>>
     THEN update_updated_at_column([cs[c] EXCEPT !.path = <<c>>], t)
     ELSE cs[c]]

\* the rows of parent_paths: replies joined to their parent whose path is empty or
\* not one longer than the parent's (array_length of an empty array is NULL, which
\* makes the comparison of the lengths not true)
parent_paths(cs) ==
  {c \in DOMAIN cs :
     /\ cs[c].parent_id # NULL
     /\ cs[c].parent_id \in DOMAIN cs
     /\ \/ cs[c].path = <<>>
        \/ /\ cs[cs[c].parent_id].path # <<>>
           /\ Len(cs[c].path) # Len(cs[cs[c].parent_id].path) + 1}

\* backfill_comment_paths(): WHILE current_depth <= max_depth LOOP, every pass one
\* UPDATE that reads the paths as they were before it, EXIT when it updated no row
RECURSIVE backfill_comment_paths(_, _, _)
backfill_comment_paths(cs, current_depth, t) ==
  IF current_depth > max_depth THEN cs
  ELSE IF parent_paths(cs) = {} THEN cs
  ELSE backfill_comment_paths(
         [c \in DOMAIN cs |->
            IF c \in parent_paths(cs)
            THEN update_updated_at_column(
                   [cs[c] EXCEPT !.path = Append(cs[cs[c].parent_id].path, c)], t)
            ELSE cs[c]],
         current_depth + 1, t)

\* the first statement of the script, run by client 1
BackfillTopLevel ==
  /\ pc[1] = "start"
  /\ comments' = BackfillTopLevelRows(comments, now)
  /\ pc' = [pc EXCEPT ![1] = "backfillPaths"]
  /\ UNCHANGED <<comment_flags, nextId, now, req, res>>

\* SELECT backfill_comment_paths();
BackfillCommentPaths ==
  /\ pc[1] = "backfillPaths"
  /\ comments' = backfill_comment_paths(comments, 1, now)
  /\ pc' = [pc EXCEPT ![1] = "done"]
  /\ res' = [res EXCEPT ![1] = "ok"]
  /\ UNCHANGED <<comment_flags, nextId, now, req>>

\* ------------------------------------------------ backfill of the reply counts
\* UPDATE comments SET reply_count = 0; then every comment that some row names as its
\* parent gets the number of those rows that are not soft-deleted
BackfillReplyCountsRows(cs, t) ==
  [c \in DOMAIN cs |->
     update_updated_at_column(
       [cs[c] EXCEPT !.reply_count =
          Cardinality({d \in DOMAIN cs : cs[d].parent_id = c /\ ~cs[d].is_deleted})], t)]

BackfillReplyCounts ==
  /\ comments' = BackfillReplyCountsRows(comments, now)
  /\ comments' # comments
  /\ UNCHANGED <<comment_flags, nextId, now, pc, req, res>>

\* -------------------------------------------------------- changeCommentStatus
\* an approval that also clears the flags of the comment
ChangeStatusRowResetsFlags(row, status, notes, t) ==
  update_updated_at_column(
    [row EXCEPT !.moderation_status = status,
                !.flags_count = IF status = "approved" THEN 0 ELSE @,
                !.moderation_notes = IF notes # NULL THEN notes ELSE @], t)

\* an approval that also restores a soft-deleted comment
ChangeStatusRowRestores(row, status, notes, t) ==
  update_updated_at_column(
    [row EXCEPT !.moderation_status = status,
                !.is_deleted = IF status = "approved" THEN FALSE ELSE @,
                !.moderation_notes = IF notes # NULL THEN notes ELSE @], t)

\* .update({moderation_status, updated_at[, moderation_notes]}).eq('id', commentId);
\* notes = NULL stands for an omitted moderationNotes argument
ChangeStatusRow(row, status, notes, t) ==
  update_updated_at_column(
    [row EXCEPT !.moderation_status = status,
                !.moderation_notes = IF notes # NULL THEN notes ELSE @], t)

ChangeCommentStatusResult(c, status) ==
  IF status \notin ModerationStatus THEN "INVALID_INPUT"
  ELSE IF c \in Ids THEN "ok" ELSE "STATUS_CHANGE_FAILED"

ChangeCommentStatus(c, status, notes) ==
  /\ ChangeCommentStatusResult(c, status) = "ok"
  /\ comments' = [comments EXCEPT ![c] = ChangeStatusRow(@, status, notes, now)]
  /\ UNCHANGED <<comment_flags, nextId, now, pc, req, res>>

\* ------------------------------------------------- service calls with their result
\* softDeleteComment called by a client: one UPDATE ... .select().single(), which
\* reports an error when no row has the id
SoftDeleteCall(p) ==
  /\ pc[p] = "start"
  /\ \E c \in CommentIds :
       /\ res' = [res EXCEPT ![p] = SoftDeleteResult(c)]
       /\ comments' = IF c \in Ids THEN [comments EXCEPT ![c] = SoftDeleteRow(@, now)]
                      ELSE comments
  /\ pc' = [pc EXCEPT ![p] = "done"]
  /\ UNCHANGED <<comment_flags, nextId, now, req>>

\* changeCommentStatus called by a client; "spam" is a status outside ModerationStatus
ChangeStatusCall(p) ==
  /\ pc[p] = "start"
  /\ \E c \in CommentIds, status \in ModerationStatus \cup {"spam"}, notes \in {NULL, 1} :
       /\ res' = [res EXCEPT ![p] = ChangeCommentStatusResult(c, status)]
       /\ comments' = IF ChangeCommentStatusResult(c, status) = "ok"
                      THEN [comments EXCEPT ![c] = ChangeStatusRow(@, status, notes, now)]
                      ELSE comments
  /\ pc' = [pc EXCEPT ![p] = "done"]
  /\ UNCHANGED <<comment_flags, nextId, now, req>>

\* updateComment: an optional field is <<>> when omitted and <<value>> when given;
\* email tells whether author_email is given (the column itself is not modelled)
UpdateCommentResult(cs, c, content, author, email) ==
  IF /\ (content = <<>> \/ Length(content[1]) = 0)
     /\ (author = <<>> \/ Length(author[1]) = 0)
     /\ ~email
  THEN "INVALID_INPUT"
  ELSE IF content # <<>> /\ ~processCommentContent(content[1]).ok THEN "INVALID_INPUT"
  ELSE IF author # <<>> /\ Length(Trim(author[1])) = 0 THEN "INVALID_INPUT"
  ELSE IF c \notin DOMAIN cs THEN "UPDATE_FAILED"
  ELSE "ok"

\* an update object that also carries the moderation status
UpdateCommentRowResetsStatus(row, content, author, t) ==
  update_updated_at_column(
    [row EXCEPT !.content = IF content # <<>> THEN processCommentContent(content[1]).original ELSE @,
                !.author_name = IF author # <<>> THEN Trim(author[1]) ELSE @,
                !.moderation_status = "pending"], t)

UpdateCommentRow(row, content, author, t) ==
  update_updated_at_column(
    [row EXCEPT !.content = IF content # <<>> THEN processCommentContent(content[1]).original ELSE @,
                !.author_name = IF author # <<>> THEN Trim(author[1]) ELSE @], t)

\* the optional fields a caller may send: the inputs of createComment and one more
\* valid text each, so that an update is visible in the row
UpdateContentInputs == {<<>>} \cup {<<x>> : x \in ContentInputs \cup {Str(2, 7)}}
UpdateAuthorInputs  == {<<>>} \cup {<<x>> : x \in AuthorInputs \cup {Str(1, 4)}}

UpdateCommentCall(p) ==
  /\ pc[p] = "start"
  /\ \E c \in CommentIds, content \in UpdateContentInputs, author \in UpdateAuthorInputs,
        email \in BOOLEAN :
       /\ res' = [res EXCEPT ![p] = UpdateCommentResult(comments, c, content, author, email)]
       /\ comments' = IF UpdateCommentResult(comments, c, content, author, email) = "ok"
                      THEN [comments EXCEPT ![c] = UpdateCommentRow(@, content, author, now)]
                      ELSE comments
  /\ pc' = [pc EXCEPT ![p] = "done"]
  /\ UNCHANGED <<comment_flags, nextId, now, req>>

\* ------------------------------------------------------------- comment_flags
FlagRow(c, u) == [comment_id |-> c, flagged_by |-> u]

FlagRowsOf(fs, c) == {k \in 1..Len(fs) : fs[k].comment_id = c}

\* the table without its unique constraint
UniqueViolationNever(fs, c, u) == FALSE

\* UNIQUE(comment_id, flagged_by)
UniqueViolation(fs, c, u) ==
  \E k \in 1..Len(fs) : fs[k].comment_id = c /\ fs[k].flagged_by = u

\* the escalation without the test of the current status
update_comment_flags_count_any_status(row, t) ==
  update_updated_at_column(
    [row EXCEPT !.flags_count = @ + 1,
                !.moderation_status = IF row.flags_count + 1 >= 3 THEN "flagged" ELSE @], t)

\* the escalation tested against the count before the increment
update_comment_flags_count_old_count(row, t) ==
  update_updated_at_column(
    [row EXCEPT !.flags_count = @ + 1,
                !.moderation_status =
                   IF row.flags_count >= 3 /\ row.moderation_status = "approved"
                   THEN "flagged" ELSE @], t)

\* AFTER INSERT branch of trigger update_comment_flags_count: one UPDATE statement,
\* both SET expressions read the row as it was before the statement
update_comment_flags_count(row, t) ==
  update_updated_at_column(
    [row EXCEPT !.flags_count = @ + 1,
                !.moderation_status =
                   IF row.flags_count + 1 >= 3 /\ row.moderation_status = "approved"
                   THEN "flagged" ELSE @], t)

\* the removal taking the escalation back when the count falls under the threshold
update_comment_flags_count_delete_reverts(row, t) ==
  update_updated_at_column(
    [row EXCEPT !.flags_count = IF @ - 1 > 0 THEN @ - 1 ELSE 0,
                !.moderation_status =
                   IF row.flags_count - 1 < 3 /\ row.moderation_status = "flagged"
                   THEN "approved" ELSE @], t)

\* AFTER DELETE branch of trigger update_comment_flags_count:
\* SET flags_count = GREATEST(flags_count - 1, 0)
update_comment_flags_count_delete(row, t) ==
  update_updated_at_column(
    [row EXCEPT !.flags_count = IF @ - 1 > 0 THEN @ - 1 ELSE 0], t)

\* DELETE FROM comment_flags of the k-th row, with its trigger
RemoveFlag(k) ==
  /\ k \in 1..Len(comment_flags)
  /\ comment_flags' = [i \in 1..(Len(comment_flags) - 1) |->
                         IF i < k THEN comment_flags[i] ELSE comment_flags[i + 1]]
  /\ comments' =
       IF comment_flags[k].comment_id \in Ids
       THEN [comments EXCEPT ![comment_flags[k].comment_id] =
               update_comment_flags_count_delete(@, now)]
       ELSE comments
  /\ UNCHANGED <<nextId, now, pc, req, res>>

\* flagComment up to the insert: the comment lookup
FlagBegin(p) ==
  /\ pc[p] = "start"
  /\ \E c \in CommentIds, u \in Users :
       IF c \notin Ids
       THEN /\ pc' = [pc EXCEPT ![p] = "done"]
            /\ res' = [res EXCEPT ![p] = "COMMENT_NOT_FOUND"]
            /\ req' = req
       ELSE /\ pc' = [pc EXCEPT ![p] = "flagInsert"]
            /\ req' = [req EXCEPT ![p] = [NoReq EXCEPT !.comment_id = c, !.flagged_by = u]]
            /\ res' = res
  /\ UNCHANGED <<comments, comment_flags, nextId, now>>

\* the insert into comment_flags with its trigger, one statement of the database
FlagInsert(p) ==
  /\ pc[p] = "flagInsert"
  /\ LET c == req[p].comment_id
         u == req[p].flagged_by
     IN  IF c \notin Ids
         THEN /\ res' = [res EXCEPT ![p] = "FLAG_FAILED"]
              /\ UNCHANGED <<comments, comment_flags>>
         ELSE IF UniqueViolation(comment_flags, c, u)
         THEN /\ res' = [res EXCEPT ![p] = "DUPLICATE_FLAG"]
              /\ UNCHANGED <<comments, comment_flags>>
         ELSE /\ res' = [res EXCEPT ![p] = "ok"]
              /\ comment_flags' = Append(comment_flags, FlagRow(c, u))
              /\ comments' = [comments EXCEPT ![c] = update_comment_flags_count(@, now)]
  /\ pc' = [pc EXCEPT ![p] = "done"]
  /\ req' = [req EXCEPT ![p] = [NoReq EXCEPT !.comment_id = req[p].comment_id,
                                             !.flagged_by = req[p].flagged_by]]
  /\ UNCHANGED <<nextId, now>>

\* ----------------------------------------------------------- moderateComment
\* hide written as a return to the queue
ModerationActionStatusHidePending(action) ==
  IF action = "approve" THEN "approved" ELSE "pending"

\* the status an action of the switch hands to changeCommentStatus
ModerationActionStatus(action) ==
  IF action = "approve" THEN "approved" ELSE "rejected"

\* moderateComment up to the end of its first await; "invalid" is an action outside
\* the type, moderation_notes = NULL an omitted (or empty) moderation_notes.  approve
\* and hide are one changeCommentStatus; delete is softDeleteComment, followed by a
\* second UPDATE when the delete returned a row and notes were given
ModerateCall(p, c, action, notes) ==
  /\ pc[p] = "start"
  /\ IF action \in {"approve", "hide"}
     THEN /\ res' = [res EXCEPT ![p] =
                       ChangeCommentStatusResult(c, ModerationActionStatus(action))]
          /\ comments' =
               IF c \in Ids
               THEN [comments EXCEPT ![c] =
                       ChangeStatusRow(@, ModerationActionStatus(action), notes, now)]
               ELSE comments
          /\ pc' = [pc EXCEPT ![p] = "done"]
          /\ req' = req
     ELSE IF action = "delete"
     THEN /\ comments' = IF c \in Ids THEN [comments EXCEPT ![c] = SoftDeleteRow(@, now)]
                         ELSE comments
          /\ IF c \in Ids /\ notes # NULL
             THEN /\ pc' = [pc EXCEPT ![p] = "moderationNotes"]
                  /\ req' = [req EXCEPT ![p] = [NoReq EXCEPT !.comment_id = c,
                                                             !.moderation_notes = notes]]
                  /\ res' = res
             ELSE /\ pc' = [pc EXCEPT ![p] = "done"]
                  /\ req' = req
                  /\ res' = [res EXCEPT ![p] = SoftDeleteResult(c)]
     ELSE /\ res' = [res EXCEPT ![p] = "INVALID_ACTION"]
          /\ pc' = [pc EXCEPT ![p] = "done"]
          /\ UNCHANGED <<comments, req>>
  /\ UNCHANGED <<comment_flags, nextId, now>>

\* the UPDATE of moderation_notes after the soft delete; when it fails (the row is
\* gone) the result of the delete is returned
ModerateNotes(p) ==
  /\ pc[p] = "moderationNotes"
  /\ comments' =
       IF req[p].comment_id \in Ids
       THEN [comments EXCEPT ![req[p].comment_id] =
               update_updated_at_column([@ EXCEPT !.moderation_notes = req[p].moderation_notes], now)]
       ELSE comments
  /\ res' = [res EXCEPT ![p] = "ok"]
  /\ pc' = [pc EXCEPT ![p] = "done"]
  /\ req' = [req EXCEPT ![p] = NoReq]
  /\ UNCHANGED <<comment_flags, nextId, now>>

\* the UPDATE of moderation_notes answers with an error: no row is written and
\* `if (error) return deleteResult;` hands back the result of the soft delete
ModerateNotesErrorFailsCall(p) ==
  /\ pc[p] = "moderationNotes"
  /\ res' = [res EXCEPT ![p] = "UPDATE_FAILED"]
  /\ pc' = [pc EXCEPT ![p] = "done"]
  /\ req' = [req EXCEPT ![p] = NoReq]
  /\ UNCHANGED <<comments, comment_flags, nextId, now>>

ModerateNotesError(p) ==
  /\ pc[p] = "moderationNotes"
  /\ res' = [res EXCEPT ![p] = "ok"]
  /\ pc' = [pc EXCEPT ![p] = "done"]
  /\ req' = [req EXCEPT ![p] = NoReq]
  /\ UNCHANGED <<comments, comment_flags, nextId, now>>

\* -------------------------------------------------------- getModerationQueue
\* the tie on flags_count broken by the older comment first
QueueBeforeOldestFirst(a, b) ==
  IF a.flags_count # b.flags_count THEN a.flags_count > b.flags_count
  ELSE IF a.created_at # b.created_at THEN a.created_at < b.created_at
  ELSE a.id < b.id

\* .order('flags_count', {ascending: false}).order('created_at', {ascending: false});
\* rows equal in both keys come in insertion (id) order
QueueBefore(a, b) ==
  IF a.flags_count # b.flags_count THEN a.flags_count > b.flags_count
  ELSE IF a.created_at # b.created_at THEN a.created_at > b.created_at
  ELSE a.id < b.id

\* options after destructuring with their defaults; status is a set (one status is
\* the set that holds it)
DefaultQueueOptions ==
  [ status |-> {"flagged", "pending"}, minFlags |-> 1,
    limit |-> DEFAULT_MODERATION_QUEUE_LIMIT, offset |-> 0 ]

QueueOptions ==
  [ status : {{"flagged", "pending"}, {"approved"}, ModerationStatus},
    minFlags : {0, 1, 2}, limit : {1, DEFAULT_MODERATION_QUEUE_LIMIT}, offset : {0, 1} ]

\* the first query: the page of comments
getModerationQueueRows(cs, o) ==
  LET ids  == SelectSeq([i \in 1..MaxId |-> i],
                        LAMBDA i : /\ i \in DOMAIN cs
                                   /\ cs[i].flags_count >= o.minFlags
                                   /\ cs[i].moderation_status \in o.status)
      rows == [k \in 1..Len(ids) |-> cs[ids[k]]]
  IN  SubSeq(SortSeq(rows, QueueBefore), o.offset + 1,
             IF o.offset + o.limit < Len(rows) THEN o.offset + o.limit ELSE Len(rows))

\* the second query and the grouping: each comment with the flag rows of its id,
\* newest first
AttachFlags(rows, fs) ==
  [k \in 1..Len(rows) |->
     LET mine == SelectSeq(fs, LAMBDA f : f.comment_id = rows[k].id)
     IN  [row |-> rows[k], flags |-> [j \in 1..Len(mine) |-> mine[Len(mine) + 1 - j]]]]

\* both queries against one state of the tables
getModerationQueue(cs, fs, o) == AttachFlags(getModerationQueueRows(cs, o), fs)

\* getModerationQueue up to the end of its first await: an empty page is returned at
\* once, otherwise the page is held until the flags are fetched
QueueQuery(p, o) ==
  /\ pc[p] = "start"
  /\ IF Len(getModerationQueueRows(comments, o)) = 0
     THEN /\ pc' = [pc EXCEPT ![p] = "done"]
          /\ res' = [res EXCEPT ![p] = "ok"]
          /\ req' = req
     ELSE /\ pc' = [pc EXCEPT ![p] = "queueFlags"]
          /\ req' = [req EXCEPT ![p] = [NoReq EXCEPT !.rows = getModerationQueueRows(comments, o)]]
          /\ res' = res
  /\ UNCHANGED <<comments, comment_flags, nextId, now>>

\* the flags query; the call returns AttachFlags(req[p].rows, comment_flags)
QueueFlags(p) ==
  /\ pc[p] = "queueFlags"
  /\ pc' = [pc EXCEPT ![p] = "done"]
  /\ res' = [res EXCEPT ![p] = "ok"]
  /\ req' = [req EXCEPT ![p] = [NoReq EXCEPT !.comment_id = req[p].rows[1].id]]
  /\ UNCHANGED <<comments, comment_flags, nextId, now>>

\* -------------------------------------------------------------------- reads
getCommentById(cs, id, includeDeleted) ==
  IF id \in DOMAIN cs /\ (includeDeleted \/ ~cs[id].is_deleted)
  THEN [data |-> <<cs[id]>>, error |-> "none"]
  ELSE [data |-> <<>>, error |-> "NOT_FOUND"]

\* getCommentById called by a client
GetCommentByIdCall(p) ==
  /\ pc[p] = "start"
  /\ \E c \in CommentIds, includeDeleted \in BOOLEAN :
       res' = [res EXCEPT ![p] = IF getCommentById(comments, c, includeDeleted).error = "none"
                                 THEN "ok"
                                 ELSE getCommentById(comments, c, includeDeleted).error]
  /\ pc' = [pc EXCEPT ![p] = "done"]
  /\ UNCHANGED <<comments, comment_flags, nextId, now, req>>

\* .order(sortBy, {ascending}): rows with equal keys come in insertion (id) order
RowBefore(a, b, sortBy, ascending) ==
  IF a[sortBy] # b[sortBy]
  THEN (IF ascending THEN a[sortBy] < b[sortBy] ELSE a[sortBy] > b[sortBy])
  ELSE a.id < b.id

\* the rows a query selects, ordered
QueryRows(cs, selected, sortBy, ascending) ==
  LET ids  == SelectSeq([i \in 1..MaxId |-> i], LAMBDA i : i \in selected)
      rows == [k \in 1..Len(ids) |-> cs[ids[k]]]
  IN  SortSeq(rows, LAMBDA a, b : RowBefore(a, b, sortBy, ascending))

\* Array.prototype.slice(from, to) / .range(from, to - 1)
Slice(sq, from, to) == SubSeq(sq, from + 1, IF to < Len(sq) THEN to ELSE Len(sq))

\* buildCommentTree: a node is the row with its depth and its children; the children
\* of a node are the rows of the list that name it as parent, in list order, and the
\* roots are the rows without parent
RECURSIVE TreeNode(_, _)
TreeNode(flat, row) ==
  LET kids == SelectSeq(flat, LAMBDA r : r.parent_id = row.id)
  IN  [row |-> row, depth |-> Len(row.path),
       children |-> [k \in 1..Len(kids) |-> TreeNode(flat, kids[k])]]

\* a tree that keeps a row whose parent is not in the list, as a root
buildCommentTreePromotesOrphans(flat) ==
  LET roots == SelectSeq(flat, LAMBDA r : \/ r.parent_id = NULL
                                          \/ \A k \in 1..Len(flat) : flat[k].id # r.parent_id)
  IN  [k \in 1..Len(roots) |-> TreeNode(flat, roots[k])]

buildCommentTree(flat) ==
  LET roots == SelectSeq(flat, LAMBDA r : r.parent_id = NULL)
  IN  [k \in 1..Len(roots) |-> TreeNode(flat, roots[k])]

\* a traversal that pushes a comment after its replies
RECURSIVE flattenCommentTreeRepliesFirst(_)
flattenCommentTreeRepliesFirst(nodes) ==
  IF nodes = <<>> THEN <<>>
  ELSE flattenCommentTreeRepliesFirst(nodes[1].children) \o <<nodes[1]>>
         \o flattenCommentTreeRepliesFirst(Tail(nodes))

\* flattenCommentTree: traverse pushes the comment, then traverses its children
RECURSIVE flattenCommentTree(_)
flattenCommentTree(nodes) ==
  IF nodes = <<>> THEN <<>>
  ELSE <<nodes[1]>> \o flattenCommentTree(nodes[1].children) \o flattenCommentTree(Tail(nodes))

\* the comments of a list of tree nodes, as buildCommentTree reads them again (it
\* overwrites depth and children)
NodeRows(nodes) == [k \in 1..Len(nodes) |-> nodes[k].row]

\* the flat lists of at most MaxList distinct rows of a table, in any order
FlatLists(cs) ==
  LET lists == UNION {[1..n -> DOMAIN cs] : n \in 0..MaxList}
  IN  {[k \in DOMAIN l |-> cs[l[k]]] : l \in {m \in lists : \A i, j \in DOMAIN m : m[i] = m[j] => i = j}}

\* the cut made one level too deep
RECURSIVE limitTreeDepthOneMore(_, _, _)
limitTreeDepthOneMore(nodes, maxDepth, currentDepth) ==
  IF currentDepth > maxDepth
  THEN [k \in 1..Len(nodes) |-> [nodes[k] EXCEPT !.children = <<>>]]
  ELSE [k \in 1..Len(nodes) |->
          [nodes[k] EXCEPT !.children = limitTreeDepthOneMore(@, maxDepth, currentDepth + 1)]]

RECURSIVE limitTreeDepth(_, _, _)
limitTreeDepth(nodes, maxDepth, currentDepth) ==
  IF currentDepth >= maxDepth
  THEN [k \in 1..Len(nodes) |-> [nodes[k] EXCEPT !.children = <<>>]]
  ELSE [k \in 1..Len(nodes) |->
          [nodes[k] EXCEPT !.children = limitTreeDepth(@, maxDepth, currentDepth + 1)]]

\* options of getCommentsForPost; an omitted moderationStatus (no filter) is the set
\* of all statuses, an omitted maxDepth or limit is NULL
DefaultOptions ==
  [ includeDeleted |-> FALSE, moderationStatus |-> ModerationStatus, asTree |-> FALSE,
    maxDepth |-> NULL, limit |-> NULL, offset |-> 0,
    sortBy |-> "created_at", sortDirection |-> "asc" ]

\* the page cut out of the query also when a tree is asked for
getCommentsForPostPagedRows(cs, postId, o) ==
  LET all  == QueryRows(cs, {i \in DOMAIN cs : /\ cs[i].post_id = postId
                                                   /\ (o.includeDeleted \/ ~cs[i].is_deleted)
                                                   /\ cs[i].moderation_status \in o.moderationStatus},
                        o.sortBy, o.sortDirection = "asc")
      flat == IF o.limit # NULL THEN Slice(all, o.offset, o.offset + o.limit) ELSE all
      tree == buildCommentTree(flat)
  IN  IF ~o.asTree THEN flat
      ELSE IF o.maxDepth # NULL /\ o.maxDepth > 0 THEN limitTreeDepth(tree, o.maxDepth, 1)
      ELSE tree

getCommentsForPost(cs, postId, o) ==
  LET all  == QueryRows(cs, {i \in DOMAIN cs : /\ cs[i].post_id = postId
                                                   /\ (o.includeDeleted \/ ~cs[i].is_deleted)
                                                   /\ cs[i].moderation_status \in o.moderationStatus},
                        o.sortBy, o.sortDirection = "asc")
      flat == IF ~o.asTree /\ o.limit # NULL THEN Slice(all, o.offset, o.offset + o.limit) ELSE all
      tree == buildCommentTree(flat)
      cut  == IF o.maxDepth # NULL /\ o.maxDepth > 0 THEN limitTreeDepth(tree, o.maxDepth, 1) ELSE tree
  IN  IF ~o.asTree THEN flat
      ELSE IF o.limit # NULL THEN Slice(cut, o.offset, o.offset + o.limit)
      ELSE cut

\* GET /api/comments?postId=...: the public listing
PublicListing(cs, postId) ==
  getCommentsForPost(cs, postId,
    [DefaultOptions EXCEPT !.asTree = TRUE, !.moderationStatus = {"approved"}])

\* the nodes of a tree, as <<id, id of the node above or NULL>>
RECURSIVE TreeEdges(_, _)
TreeEdges(nodes, above) ==
  UNION { {<<nodes[k].row.id, above>>} \cup TreeEdges(nodes[k].children, nodes[k].row.id)
          : k \in 1..Len(nodes) }

\* ---------------------------------------------------------- specifications
EmptyTable == [i \in {} |-> NewRow(i, 1, NULL, <<i>>, Str(0, 1), Str(0, 1), 1)]

Init ==
  /\ comments = EmptyTable
  /\ comment_flags = <<>>
  /\ nextId = 1
  /\ now = 1
  /\ pc = [p \in Clients |-> "start"]
  /\ req = [p \in Clients |-> NoReq]
  /\ res = [p \in Clients |-> "none"]

Next ==
  \/ \E p \in Clients : CreateBegin(p)
  \/ \E p \in Clients : CreateLookupParent(p)
  \/ \E p \in Clients : CreateInsert(p)
  \/ \E c \in CommentIds : SoftDeleteComment(c)
  \/ \E c \in CommentIds, n \in {NULL} \cup CommentIds : UpdateParentId(c, n)
  \/ \E c \in CommentIds : DeleteComment(c)

Spec == Init /\ [][Next]_vars

\* one thread starter, as createComment leaves it
ValidContent == Str(1, MAX_LENGTH)
ValidAuthor  == Str(0, 3)
OneComment   == InsertComment(EmptyTable, 1, 1, NULL, ValidContent, ValidAuthor, 1)
TwoComments  == InsertComment(OneComment, 2, 1, NULL, ValidContent, ValidAuthor, 1)

\* concurrent createComment calls on a table that holds one comment
InitCreate ==
  /\ comments = OneComment
  /\ comment_flags = <<>>
  /\ nextId = 2
  /\ now = 1
  /\ pc = [p \in Clients |-> "start"]
  /\ req = [p \in Clients |-> NoReq]
  /\ res = [p \in Clients |-> "none"]

NextCreate ==
  \/ \E p \in Clients : CreateBegin(p)
  \/ \E p \in Clients : CreateLookupParent(p)
  \/ \E p \in Clients : CreateInsert(p)

SpecCreate == InitCreate /\ [][NextCreate]_vars

\* concurrent flagComment calls on two comments, the first in any moderation status
\* (changeCommentStatus), the second approved
InitFlag ==
  /\ \E s \in ModerationStatus :
       comments = [TwoComments EXCEPT ![1] = ChangeStatusRow(@, s, NULL, 1),
                                      ![2] = ChangeStatusRow(@, "approved", NULL, 1)]
  /\ comment_flags = <<>>
  /\ nextId = 3
  /\ now = 1
  /\ pc = [p \in Clients |-> "start"]
  /\ req = [p \in Clients |-> NoReq]
  /\ res = [p \in Clients |-> "none"]

NextFlag ==
  \/ \E p \in Clients : FlagBegin(p)
  \/ \E p \in Clients : FlagInsert(p)

SpecFlag == InitFlag /\ [][NextFlag]_vars

\* the comment service on the thread structure, with rows removed under it
NextService ==
  \/ \E p \in Clients : CreateBegin(p)
  \/ \E p \in Clients : CreateLookupParent(p)
  \/ \E p \in Clients : CreateInsert(p)
  \/ \E c \in CommentIds : SoftDeleteComment(c)
  \/ \E c \in CommentIds : DeleteComment(c)

SpecService == Init /\ [][NextService]_vars

\* createComment, softDeleteComment and moderation of a thread
NextThread ==
  \/ \E p \in Clients : CreateBegin(p)
  \/ \E p \in Clients : CreateLookupParent(p)
  \/ \E p \in Clients : CreateInsert(p)
  \/ \E c \in CommentIds : SoftDeleteComment(c)
  \/ \E c \in CommentIds, s \in ModerationStatus : ChangeCommentStatus(c, s, NULL)

SpecThread == Init /\ [][NextThread]_vars

\* the clock of getCurrentTimestamp() and of the database's now()
Tick ==
  /\ now < MaxNow
  /\ now' = now + 1
  /\ UNCHANGED <<comments, comment_flags, nextId, pc, req, res>>

\* softDeleteComment and changeCommentStatus applied again and again to two comments
\* while time passes
InitClock ==
  /\ comments = TwoComments
  /\ comment_flags = <<>>
  /\ nextId = 3
  /\ now = 1
  /\ pc = [p \in Clients |-> "done"]
  /\ req = [p \in Clients |-> NoReq]
  /\ res = [p \in Clients |-> "none"]

NextClock ==
  \/ Tick
  \/ \E c \in CommentIds : SoftDeleteComment(c)
  \/ \E c \in CommentIds, s \in ModerationStatus, n \in {NULL, 1} : ChangeCommentStatus(c, s, n)

SpecClock == InitClock /\ [][NextClock]_vars

\* clients calling the operations of the comment service on a table that holds one
\* comment
NextCalls ==
  \/ \E p \in Clients : CreateBegin(p)
  \/ \E p \in Clients : CreateLookupParent(p)
  \/ \E p \in Clients : CreateInsert(p)
  \/ \E p \in Clients : GetCommentByIdCall(p)
  \/ \E p \in Clients : UpdateCommentCall(p)
  \/ \E p \in Clients : SoftDeleteCall(p)
  \/ \E p \in Clients : ChangeStatusCall(p)

SpecCalls == InitCreate /\ [][NextCalls]_vars

\* concurrent moderateComment calls on two comments, with rows removed under them
NextModerate ==
  \/ \E p \in Clients, c \in CommentIds, notes \in {NULL, 1},
        action \in {"approve", "hide", "delete", "invalid"} : ModerateCall(p, c, action, notes)
  \/ \E p \in Clients : ModerateNotes(p)
  \/ \E c \in CommentIds : DeleteComment(c)

SpecModerate == InitFlag /\ [][NextModerate]_vars

\* three top-level comments, the third written one instant after the others
ThreeComments == InsertComment(TwoComments, 3, 2, NULL, ValidContent, ValidAuthor, 2)

\* a moderator (client 1) reading the queue while the other clients flag three comments
InitQueue ==
  /\ comments = [ThreeComments EXCEPT ![1] = ChangeStatusRow(@, "flagged", NULL, 1),
                                      ![2] = ChangeStatusRow(@, "approved", NULL, 1)]
  /\ comment_flags = <<>>
  /\ nextId = 4
  /\ now = 2
  /\ pc = [p \in Clients |-> "start"]
  /\ req = [p \in Clients |-> NoReq]
  /\ res = [p \in Clients |-> "none"]

NextQueue ==
  \/ \E p \in Clients \ {1} : FlagBegin(p)
  \/ \E p \in Clients \ {1} : FlagInsert(p)
  \/ \E o \in QueueOptions : QueueQuery(1, o)
  \/ QueueFlags(1)

SpecQueue == InitQueue /\ [][NextQueue]_vars

\* a comment and a reply to it, the comment approved
ThreadOfTwo ==
  [InsertComment(OneComment, 2, 1, 1, ValidContent, ValidAuthor, 1)
     EXCEPT ![1] = ChangeStatusRow(@, "approved", NULL, 1)]

\* concurrent updateComment calls on a thread of two while time passes
InitUpdate ==
  /\ comments = ThreadOfTwo
  /\ comment_flags = <<>>
  /\ nextId = 3
  /\ now = 1
  /\ pc = [p \in Clients |-> "start"]
  /\ req = [p \in Clients |-> NoReq]
  /\ res = [p \in Clients |-> "none"]

NextUpdate ==
  \/ Tick
  \/ \E p \in Clients : UpdateCommentCall(p)

SpecUpdate == InitUpdate /\ [][NextUpdate]_vars

\* moderateComment with action delete and notes on two comments, where the UPDATE of
\* the notes may answer with an error and rows are removed under the calls
NextNotes ==
  \/ \E p \in Clients, c \in CommentIds, notes \in {1, 2} : ModerateCall(p, c, "delete", notes)
  \/ \E p \in Clients : ModerateNotes(p)
  \/ \E p \in Clients : ModerateNotesError(p)
  \/ \E c \in CommentIds : DeleteComment(c)

SpecNotes == InitFlag /\ [][NextNotes]_vars

\* three top-level comments of one post moved under each other, soft-deleted, and
\* their reply counts recomputed by the backfill
InitReparent ==
  /\ comments = InsertComment(TwoComments, 3, 1, NULL, ValidContent, ValidAuthor, 1)
  /\ comment_flags = <<>>
  /\ nextId = 4
  /\ now = 1
  /\ pc = [p \in Clients |-> "start"]
  /\ req = [p \in Clients |-> NoReq]
  /\ res = [p \in Clients |-> "none"]

NextReparent ==
  \/ \E c \in CommentIds, n \in {NULL} \cup CommentIds : UpdateParentId(c, n)
  \/ \E c \in CommentIds : SoftDeleteComment(c)
  \/ BackfillReplyCounts

SpecReparent == InitReparent /\ [][NextReparent]_vars

\* flags put on two comments by flagComment and taken away again
NextUnflag ==
  \/ \E p \in Clients : FlagBegin(p)
  \/ \E p \in Clients : FlagInsert(p)
  \/ \E k \in 1..NumClients : RemoveFlag(k)

SpecUnflag == InitFlag /\ [][NextUnflag]_vars

\* a table of n comments written before the path column existed: comments 1..d a
\* chain of replies, the others replies to comment a (top-level when a is null)
Forest(n, d, a) ==
  [c \in 1..n |->
     NewRow(c, 1, IF c = 1 THEN NULL ELSE IF c <= d THEN c - 1 ELSE a, <<>>,
            ValidContent, ValidAuthor, 1)]

InitBackfill ==
  /\ \E n \in 1..MaxForest, d \in 1..MaxForest, a \in 0..MaxForest :
       /\ d <= n /\ a <= d
       /\ comments = Forest(n, d, a)
       /\ nextId = n + 1
  /\ comment_flags = <<>>
  /\ now = 1
  /\ pc = [p \in Clients |-> "start"]
  /\ req = [p \in Clients |-> NoReq]
  /\ res = [p \in Clients |-> "none"]

NextBackfill ==
  \/ BackfillTopLevel
  \/ BackfillCommentPaths

SpecBackfill == InitBackfill /\ [][NextBackfill]_vars

\* concurrent createComment calls on a table whose one comment is soft-deleted
InitReplyDeleted ==
  /\ comments = [OneComment EXCEPT ![1] = SoftDeleteRow(@, 1)]
  /\ comment_flags = <<>>
  /\ nextId = 2
  /\ now = 1
  /\ pc = [p \in Clients |-> "start"]
  /\ req = [p \in Clients |-> NoReq]
  /\ res = [p \in Clients |-> "none"]

SpecReplyDeleted == InitReplyDeleted /\ [][NextCreate]_vars

\* comment 1 approved and then flagged by three earlier users, which escalated it;
\* moderators approve and the users of the model flag
InitReflag ==
  /\ comments =
       [TwoComments EXCEPT
          ![1] = update_comment_flags_count(update_comment_flags_count(
                   update_comment_flags_count(ChangeStatusRow(@, "approved", NULL, 1), 1), 1), 1),
          ![2] = ChangeStatusRow(@, "approved", NULL, 1)]
  /\ comment_flags = [k \in 1..AUTO_FLAG_THRESHOLD |-> FlagRow(1, NumUsers + k)]
  /\ nextId = 3
  /\ now = 1
  /\ pc = [p \in Clients |-> "start"]
  /\ req = [p \in Clients |-> NoReq]
  /\ res = [p \in Clients |-> "none"]

NextReflag ==
  \/ \E p \in Clients, c \in CommentIds, notes \in {NULL, 1} : ModerateCall(p, c, "approve", notes)
  \/ \E c \in CommentIds : ChangeCommentStatus(c, "approved", NULL)
  \/ \E p \in Clients : FlagBegin(p)
  \/ \E p \in Clients : FlagInsert(p)

SpecReflag == InitReflag /\ [][NextReflag]_vars

\* a thread of one post: comment 1, its replies 2 and 4, and the reply 3 to comment 2
ThreadOfFour ==
  InsertComment(
    InsertComment(
      InsertComment(OneComment, 2, 1, 1, ValidContent, ValidAuthor, 1),
      3, 1, 2, ValidContent, ValidAuthor, 1),
    4, 1, 1, ValidContent, ValidAuthor, 1)

InitPublic ==
  /\ comments = ThreadOfFour
  /\ comment_flags = <<>>
  /\ nextId = 5
  /\ now = 1
  /\ pc = [p \in Clients |-> "start"]
  /\ req = [p \in Clients |-> NoReq]
  /\ res = [p \in Clients |-> "none"]

\* soft deletes and the moderators' decisions on the thread
NextPublic ==
  \/ \E c \in CommentIds : SoftDeleteComment(c)
  \/ \E c \in CommentIds, s \in ModerationStatus : ChangeCommentStatus(c, s, NULL)

SpecPublic == InitPublic /\ [][NextPublic]_vars

\* every operation of the comment and moderation services on a table whose one
\* comment is soft-deleted: client 1 is the moderator, client 2 the author who edits
\* and deletes, the other clients are readers who reply and flag
InitMonotonic ==
  /\ comments = [OneComment EXCEPT ![1] = SoftDeleteRow(@, 1)]
  /\ comment_flags = <<>>
  /\ nextId = 2
  /\ now = 1
  /\ pc = [p \in Clients |-> "start"]
  /\ req = [p \in Clients |-> NoReq]
  /\ res = [p \in Clients |-> "none"]

NextMonotonic ==
  \/ \E p \in Clients \ {1, 2} : CreateBegin(p)
  \/ \E p \in Clients \ {1, 2} : CreateLookupParent(p)
  \/ \E p \in Clients \ {1, 2} : CreateInsert(p)
  \/ \E p \in Clients \ {1, 2} : FlagBegin(p)
  \/ \E p \in Clients \ {1, 2} : FlagInsert(p)
  \/ UpdateCommentCall(2)
  \/ SoftDeleteCall(2)
  \/ ChangeStatusCall(1)
  \/ \E c \in CommentIds, notes \in {NULL, 1},
        action \in {"approve", "hide", "delete"} : ModerateCall(1, c, action, notes)
  \/ ModerateNotes(1)

SpecMonotonic == InitMonotonic /\ [][NextMonotonic]_vars

\* ================================================================== claims
Replies(c) == {d \in Ids : comments[d].parent_id = c /\ ~comments[d].is_deleted}

\* C1: every comment's reply_count equals the number of comments that name it as
\* parent and are not soft-deleted, after any sequence of createComment, parent_id
\* change, softDeleteComment and row removal.
C1_ReplyCountInvariant ==
  \A c \in Ids : comments[c].reply_count = Cardinality(Replies(c))

\* C2: every comment's path ends with its own id, is <<id>> for a top-level comment
\* and otherwise is the current path of its parent followed by its id.
C2_PathInvariant ==
  \A c \in Ids :
    LET row == comments[c]
    IN  /\ Len(row.path) > 0
        /\ row.path[Len(row.path)] = c
        /\ row.parent_id = NULL => row.path = <<c>>
        /\ row.parent_id # NULL =>
             /\ row.parent_id \in Ids
             /\ row.path = Append(comments[row.parent_id].path, c)

RECURSIVE ReachesTopLevel(_, _)
ReachesTopLevel(c, seen) ==
  IF comments[c].parent_id = NULL THEN TRUE
  ELSE IF comments[c].parent_id \in seen \/ comments[c].parent_id \notin Ids THEN FALSE
  ELSE ReachesTopLevel(comments[c].parent_id, seen \cup {comments[c].parent_id})

\* C3: no comment is its own ancestor: following parent_id from any comment reaches a
\* top-level comment without visiting a comment twice, and no id occurs twice in a path.
C3_NoCycle ==
  \A c \in Ids :
    /\ ReachesTopLevel(c, {c})
    /\ \A i, j \in 1..Len(comments[c].path) :
         i # j => comments[c].path[i] # comments[c].path[j]

SamePair(p, q) ==
  /\ req[p].comment_id # NULL
  /\ req[p].comment_id = req[q].comment_id
  /\ req[p].flagged_by = req[q].flagged_by

\* C4: of the flagComment calls for one (comment_id, flagged_by) pair exactly one
\* succeeds and every other fails with DUPLICATE_FLAG, however they interleave; no
\* pair ever has two flag rows, and a rejected call leaves flags_count alone while
\* the accepted one raises it by exactly 1.
C4_DuplicateFlagRejected ==
  [][ /\ \A i, j \in 1..Len(comment_flags') :
           comment_flags'[i] = comment_flags'[j] => i = j
      /\ \A p \in Clients :
           (pc'[p] = "done" /\ req'[p].comment_id # NULL) =>
             /\ res'[p] \in {"ok", "DUPLICATE_FLAG"}
             /\ res'[p] = "DUPLICATE_FLAG" =>
                  \E q \in Clients \ {p} :
                    pc'[q] = "done" /\ res'[q] = "ok" /\ (SamePair(p, q))'
             /\ res'[p] = "ok" =>
                  \A q \in Clients \ {p} :
                    (pc'[q] = "done" /\ (SamePair(p, q))') => res'[q] = "DUPLICATE_FLAG"
      /\ \A p \in Clients :
           (pc[p] = "flagInsert" /\ pc'[p] = "done") =>
             LET c == req[p].comment_id
             IN  IF UniqueViolation(comment_flags, c, req[p].flagged_by)
                 THEN /\ res'[p] = "DUPLICATE_FLAG"
                      /\ comment_flags' = comment_flags
                      /\ comments' = comments
                 ELSE /\ res'[p] = "ok"
                      /\ Len(comment_flags') = Len(comment_flags) + 1
                      /\ comments'[c].flags_count = comments[c].flags_count + 1
    ]_vars

C4_Witness ==
  \E p, q \in Clients :
    /\ p # q
    /\ pc[p] = "done" /\ pc[q] = "done"
    /\ SamePair(p, q)
    /\ res[p] = "ok" /\ res[q] = "DUPLICATE_FLAG"
    /\ comments[req[p].comment_id].flags_count = 1

C6_ConcurrentFlags ==
  /\ \A c \in Ids :
       /\ comments[c].flags_count = Cardinality(FlagRowsOf(comment_flags, c))
       /\ comments[c].moderation_status = "approved" => comments[c].flags_count < 3
  /\ comments[2].moderation_status = (IF comments[2].flags_count >= 3 THEN "flagged" ELSE "approved")
  /\ \A p \in Clients :
       (pc[p] = "done" /\ req[p].comment_id # NULL) =>
         UniqueViolation(comment_flags, req[p].comment_id, req[p].flagged_by)
  /\ \A p \in Clients :
       (/\ pc[p] = "done" /\ req[p].comment_id # NULL
        /\ \A q \in Clients \ {p} : ~SamePair(p, q)) => res[p] = "ok"

C6_Witness ==
  /\ Cardinality({p \in Clients : pc[p] = "done" /\ res[p] = "ok" /\ req[p].comment_id = 2}) >= 3
  /\ comments[2].flags_count >= 3
  /\ comments[2].moderation_status = "flagged"

AllReplies(cs, c) == {d \in DOMAIN cs : cs[d].parent_id = c}

\* C7: concurrent createComment calls under one parent all succeed: a call that found
\* its parent inserts its row whatever the others do, the row names that parent, and
\* the parent's reply_count grows by one per reply, so that it always equals the
\* number of replies.
C7_ConcurrentReplies ==
  [][ /\ \A c \in DOMAIN comments' :
           comments'[c].reply_count = Cardinality(AllReplies(comments', c))
      /\ \A p \in Clients :
           (/\ pc[p] = "lookupParent" /\ pc'[p] # "lookupParent"
            /\ req[p].parent_id \in Ids
            /\ comments[req[p].parent_id].post_id = req[p].post_id) => pc'[p] = "insert"
      /\ \A p \in Clients :
           (pc[p] = "insert" /\ pc'[p] = "done") =>
             /\ res'[p] = "ok"
             /\ DOMAIN comments' = Ids \cup {nextId}
             /\ nextId \notin Ids
             /\ comments'[nextId].parent_id = req[p].parent_id
             /\ req[p].parent_id # NULL =>
                  comments'[req[p].parent_id].reply_count =
                    comments[req[p].parent_id].reply_count + 1
    ]_vars

C7_Witness ==
  /\ \A p \in Clients : pc[p] = "done" /\ res[p] = "ok"
  /\ Cardinality(AllReplies(comments, 1)) = NumClients
  /\ comments[1].reply_count = NumClients

\* C8: softDeleteComment of an existing comment marks it deleted and stamps deleted_at,
\* keeps its path and parent_id, and changes no other row: every reply keeps its
\* parent_id and path, is not marked deleted and is still returned by getCommentById.
C8_SoftDeleteFrame ==
  [][ \A c \in CommentIds :
        SoftDeleteComment(c) =>
          /\ DOMAIN comments' = Ids
          /\ comments'[c].is_deleted
          /\ comments'[c].deleted_at # NULL
          /\ comments'[c].path = comments[c].path
          /\ comments'[c].parent_id = comments[c].parent_id
          /\ \A d \in Ids \ {c} :
               /\ comments'[d] = comments[d]
               /\ getCommentById(comments', d, FALSE) = getCommentById(comments, d, FALSE)
          /\ comment_flags' = comment_flags
    ]_vars

C8_Witness ==
  \E c, d \in Ids :
    /\ comments[c].is_deleted
    /\ comments[c].deleted_at # NULL
    /\ comments[d].parent_id = c
    /\ ~comments[d].is_deleted
    /\ getCommentById(comments, d, FALSE).error = "none"

\* C9: in the tree of the public listing a soft-deleted comment that has replies which
\* are not deleted still appears as a node, with each of these replies beneath it
\* (stated for an approved top-level comment and its approved replies).
C9_DeletedStaysInTree ==
  \A c \in Ids :
    (/\ comments[c].is_deleted
     /\ comments[c].parent_id = NULL
     /\ comments[c].moderation_status = "approved"
     /\ \E d \in Replies(c) : comments[d].moderation_status = "approved") =>
      LET edges == TreeEdges(PublicListing(comments, comments[c].post_id), NULL)
      IN  /\ <<c, NULL>> \in edges
          /\ \A d \in Replies(c) :
               comments[d].moderation_status = "approved" => <<d, c>> \in edges

\* C10: a createComment call that returns an error inserts no row and leaves every
\* comment as it was: no step of a call that does not end in success writes the table.
C10_FailedCreateWritesNothing ==
  [][ \A p \in Clients :
        (/\ pc[p] \in {"start", "lookupParent", "insert"}
         /\ pc'[p] # pc[p]
         /\ res'[p] # "ok") =>
          /\ comments' = comments
          /\ nextId' = nextId
          /\ (pc'[p] = "done" /\ pc[p] # "insert") =>
               res'[p] \in {"INVALID_INPUT", "POST_NOT_FOUND", "PARENT_NOT_FOUND",
                            "PARENT_POST_MISMATCH"}
    ]_vars

C10_Witness ==
  /\ \E p \in Clients : pc[p] = "done" /\ res[p] = "PARENT_POST_MISMATCH"
  /\ \E p \in Clients : pc[p] = "done" /\ res[p] = "INVALID_INPUT"
  /\ \E c \in Ids : comments[c].reply_count = 0

\* C11: createComment under a parent of another post fails with PARENT_POST_MISMATCH,
\* and in every reachable state a comment with a parent has the post_id of its parent.
C11_SamePostAsParent ==
  /\ \A c \in Ids :
       (comments[c].parent_id # NULL /\ comments[c].parent_id \in Ids) =>
         comments[comments[c].parent_id].post_id = comments[c].post_id
  /\ \A p \in Clients :
       (pc[p] = "insert" /\ req[p].parent_id \in Ids) =>
         comments[req[p].parent_id].post_id = req[p].post_id

\* C12: a successful createComment of a reply under P stores the new comment with
\* path = P.path followed by its id and reply_count 0, raises P.reply_count by exactly
\* 1 and changes the reply_count and the path of no other comment, P's ancestors
\* included.
C12_ReplyInsertFrame ==
  [][ \A p \in Clients :
        (/\ pc[p] = "insert" /\ pc'[p] = "done" /\ res'[p] = "ok"
         /\ req[p].parent_id # NULL) =>
          LET P == req[p].parent_id
          IN  /\ nextId \notin Ids
              /\ DOMAIN comments' = Ids \cup {nextId}
              /\ comments'[nextId].parent_id = P
              /\ comments'[nextId].path = Append(comments[P].path, nextId)
              /\ comments'[nextId].reply_count = 0
              /\ comments'[P].reply_count = comments[P].reply_count + 1
              /\ comments'[P].path = comments[P].path
              /\ \A d \in Ids \ {P} :
                   /\ comments'[d].reply_count = comments[d].reply_count
                   /\ comments'[d].path = comments[d].path
    ]_vars

C12_Witness ==
  \E a, b, c \in Ids :
    /\ comments[c].path = <<a, b, c>>
    /\ comments[c].reply_count = 0
    /\ comments[b].reply_count = 1
    /\ comments[a].reply_count = 1
    /\ \A p \in Clients : pc[p] = "done" /\ res[p] = "ok"

\* C13: every comment stored by a successful createComment starts with
\* moderation_status pending, flags_count 0, is_deleted false and reply_count 0,
\* whatever post, parent, content and author the call was given.
C13_InitialState ==
  [][ \A p \in Clients :
        (pc[p] = "insert" /\ pc'[p] = "done" /\ res'[p] = "ok") =>
          /\ nextId \notin Ids
          /\ nextId \in DOMAIN comments'
          /\ comments'[nextId].moderation_status = "pending"
          /\ comments'[nextId].flags_count = 0
          /\ comments'[nextId].is_deleted = FALSE
          /\ comments'[nextId].reply_count = 0
          /\ comments'[nextId].deleted_at = NULL
    ]_vars

C13_Witness ==
  /\ \A p \in Clients : pc[p] = "done" /\ res[p] = "ok"
  /\ \E c, d \in Ids : comments[c].post_id # comments[d].post_id
  /\ \E c \in Ids :
       /\ comments[c].parent_id # NULL
       /\ comments[c].moderation_status = "pending"
       /\ comments[c].flags_count = 0
       /\ ~comments[c].is_deleted
       /\ comments[c].reply_count = 0

C16_ModerateActions ==
  [][ \A p \in Clients :
        /\ (pc[p] = "start" /\ pc'[p] # "start") =>
             \A c \in CommentIds, notes \in {NULL, 1}, a \in {"approve", "hide", "delete", "invalid"} :
               ModerateCall(p, c, a, notes) =>
                 /\ DOMAIN comments' = Ids
                 /\ \A d \in Ids \ {c} : comments'[d] = comments[d]
                 /\ a = "invalid" => (res'[p] = "INVALID_ACTION" /\ comments' = comments)
                 /\ (a # "invalid" /\ c \notin Ids) =>
                      (pc'[p] = "done" /\ res'[p] \notin {"ok", "none"} /\ comments' = comments)
                 /\ (a = "approve" /\ c \in Ids) =>
                      /\ res'[p] = "ok"
                      /\ comments'[c].moderation_status = "approved"
                      /\ comments'[c].is_deleted = comments[c].is_deleted
                 /\ (a = "hide" /\ c \in Ids) =>
                      /\ res'[p] = "ok"
                      /\ comments'[c].moderation_status = "rejected"
                      /\ comments'[c].is_deleted = comments[c].is_deleted
                 /\ (a = "delete" /\ c \in Ids) =>
                      /\ pc'[p] = "done" => res'[p] = "ok"
                      /\ comments'[c].is_deleted
                      /\ comments'[c].moderation_status = comments[c].moderation_status
        /\ (pc[p] = "moderationNotes" /\ pc'[p] = "done") =>
             /\ res'[p] = "ok"
             /\ req[p].comment_id \in Ids =>
                  /\ comments'[req[p].comment_id].is_deleted
                  /\ comments'[req[p].comment_id].moderation_status =
                       comments[req[p].comment_id].moderation_status
    ]_vars

C16_Witness ==
  /\ Ids = {1, 2}
  /\ comments[1].is_deleted /\ comments[1].moderation_notes = 1
  /\ comments[1].moderation_status = "approved"
  /\ comments[2].moderation_status = "rejected" /\ ~comments[2].is_deleted
  /\ \A p \in Clients : pc[p] = "done" /\ res[p] = "ok"

\* the comments that rank strictly before row r in the order of the queue, and those
\* that rank before it or with it
RankedAbove(S, r) ==
  {c \in S : \/ comments[c].flags_count > r.flags_count
             \/ /\ comments[c].flags_count = r.flags_count
                /\ comments[c].created_at > r.created_at}

RankedAtLeast(S, r) ==
  {c \in S : \/ comments[c].flags_count > r.flags_count
             \/ /\ comments[c].flags_count = r.flags_count
                /\ comments[c].created_at >= r.created_at}

\* C17: getModerationQueue returns exactly the comments with flags_count >= minFlags
\* whose moderation_status is in the requested set, by flags_count descending and then
\* created_at descending, cut to the page [offset, offset + limit), each returned
\* comment with exactly the flag rows of its id.
C17_ModerationQueue ==
  /\ \A o \in QueueOptions :
       LET rows == getModerationQueueRows(comments, o)
           want == {c \in Ids : /\ comments[c].flags_count >= o.minFlags
                                 /\ comments[c].moderation_status \in o.status}
           rest == Cardinality(want) - o.offset
       IN  /\ Len(rows) = IF rest <= 0 THEN 0 ELSE IF rest < o.limit THEN rest ELSE o.limit
           /\ \A k \in 1..Len(rows) :
                /\ rows[k].id \in want
                /\ rows[k] = comments[rows[k].id]
                /\ \A j \in 1..Len(rows) : rows[j].id = rows[k].id => j = k
                /\ Cardinality(RankedAbove(want, rows[k])) < o.offset + k
                /\ o.offset + k <= Cardinality(RankedAtLeast(want, rows[k]))
  /\ \A p \in Clients :
       pc[p] = "queueFlags" =>
         LET result == AttachFlags(req[p].rows, comment_flags)
         IN  /\ Len(result) = Len(req[p].rows)
             /\ \A k \in 1..Len(result) :
                  /\ result[k].row = req[p].rows[k]
                  /\ {result[k].flags[j] : j \in 1..Len(result[k].flags)} =
                       {comment_flags[i] : i \in FlagRowsOf(comment_flags, result[k].row.id)}
                  /\ Len(result[k].flags) =
                       Cardinality(FlagRowsOf(comment_flags, result[k].row.id))

C17_Witness ==
  \E p \in Clients :
    /\ pc[p] = "queueFlags"
    /\ Len(req[p].rows) = 3
    /\ req[p].rows[1].flags_count > req[p].rows[2].flags_count
    /\ req[p].rows[2].flags_count = req[p].rows[3].flags_count
    /\ req[p].rows[2].created_at > req[p].rows[3].created_at
    /\ Len(AttachFlags(req[p].rows, comment_flags)[1].flags) = 2

\* C18: the moderation queue requested with default options holds every comment
\* whose moderation_status is pending, flagged by somebody or not (the table never
\* holds more comments than one page).
C18_PendingInDefaultQueue ==
  \A c \in Ids :
    comments[c].moderation_status = "pending" =>
      \E k \in 1..Len(getModerationQueue(comments, comment_flags, DefaultQueueOptions)) :
        getModerationQueue(comments, comment_flags, DefaultQueueOptions)[k].row.id = c

\* the position of a comment in a flat list, and its chain of ancestors from the root
\* down to itself, <<>> when some ancestor is missing from the list
PosIn(xs, id) == CHOOSE k \in 1..Len(xs) : xs[k].id = id

RECURSIVE ChainIn(_, _)
ChainIn(xs, id) ==
  LET parent == xs[PosIn(xs, id)].parent_id
  IN  IF parent = NULL THEN <<id>>
      ELSE IF \A k \in 1..Len(xs) : xs[k].id # parent THEN <<>>
      ELSE IF ChainIn(xs, parent) = <<>> THEN <<>>
      ELSE Append(ChainIn(xs, parent), id)

\* a comes before b in the pre-order of the list: a is an ancestor of b, or where
\* their chains part a's side appears first in the list
PreorderBefore(xs, a, b) ==
  LET ca == ChainIn(xs, a)
      cb == ChainIn(xs, b)
  IN  \/ Len(ca) < Len(cb) /\ SubSeq(cb, 1, Len(ca)) = ca
      \/ \E k \in 1..Len(ca) :
           /\ k <= Len(cb)
           /\ \A j \in 1..(k - 1) : ca[j] = cb[j]
           /\ ca[k] # cb[k]
           /\ PosIn(xs, ca[k]) < PosIn(xs, cb[k])

\* C19: for every flat list xs of distinct comments with acyclic parent links,
\* flattenCommentTree(buildCommentTree(xs)) holds exactly the comments of xs whose
\* whole chain of ancestors is in xs, each once, in pre-order (a comment before its
\* replies, roots and siblings as they appear in xs), and buildCommentTree of the
\* flattened list gives the same nesting again.
C19_FlattenBuild ==
  \A xs \in FlatLists(comments) :
    LET ys   == flattenCommentTree(buildCommentTree(xs))
        kept == {k \in 1..Len(xs) : ChainIn(xs, xs[k].id) # <<>>}
    IN  /\ Len(ys) = Cardinality(kept)
        /\ {ys[k].row : k \in 1..Len(ys)} = {xs[k] : k \in kept}
        /\ \A i, j \in 1..Len(ys) : i < j => PreorderBefore(xs, ys[i].row.id, ys[j].row.id)
        /\ \A k \in 1..Len(ys) : ys[k].depth = Len(ys[k].row.path)
        /\ buildCommentTree(NodeRows(ys)) = buildCommentTree(xs)

C19_Witness ==
  /\ \A p \in Clients : pc[p] = "done"
  /\ \E xs \in FlatLists(comments) :
       /\ Len(xs) = 3
       /\ xs[1].parent_id = xs[2].id
       /\ xs[2].parent_id = xs[3].id
       /\ xs[3].parent_id = NULL
       /\ NodeRows(flattenCommentTree(buildCommentTree(xs))) = <<xs[3], xs[2], xs[1]>>
  /\ \E xs \in FlatLists(comments) :
       /\ Len(xs) = 3
       /\ xs[1].parent_id = NULL
       /\ xs[2].parent_id # NULL /\ xs[2].parent_id # xs[1].id /\ xs[2].parent_id # xs[3].id
       /\ xs[3].parent_id = xs[2].id
       /\ NodeRows(flattenCommentTree(buildCommentTree(xs))) = <<xs[1]>>

\* the nodes of a tree, each as <<row, id of the node above or NULL, nesting level,
\* place among its siblings>>
RECURSIVE TreePlaces(_, _, _)
TreePlaces(nodes, above, level) ==
  UNION { {<<nodes[k].row, above, level, k>>}
            \cup TreePlaces(nodes[k].children, nodes[k].row.id, level + 1)
          : k \in 1..Len(nodes) }

RECURSIVE TreeDepthsRight(_, _)
TreeDepthsRight(nodes, level) ==
  \A k \in 1..Len(nodes) :
    /\ nodes[k].depth = level
    /\ nodes[k].depth = Len(nodes[k].row.path)
    /\ TreeDepthsRight(nodes[k].children, level + 1)

C21_TreePagination ==
  \A post \in Posts, includeDeleted \in BOOLEAN, L \in 1..2, off \in 0..1 :
    LET o     == [DefaultOptions EXCEPT !.asTree = TRUE, !.includeDeleted = includeDeleted]
        flat  == getCommentsForPost(comments, post, [o EXCEPT !.asTree = FALSE])
        roots == SelectSeq(flat, LAMBDA r : r.parent_id = NULL)
        paged == getCommentsForPost(comments, post, [o EXCEPT !.limit = L, !.offset = off])
        rest  == Len(roots) - off
        page  == {roots[off + k].id : k \in 1..Len(paged)}
    IN  /\ Len(paged) = IF rest <= 0 THEN 0 ELSE IF rest < L THEN rest ELSE L
        /\ \A k \in 1..Len(paged) :
             /\ paged[k].row = roots[off + k]
             /\ paged[k] = getCommentsForPost(comments, post, o)[off + k]
        /\ {e[1] : e \in TreePlaces(paged, NULL, 1)} =
             {flat[i] : i \in {j \in 1..Len(flat) :
                                 /\ ChainIn(flat, flat[j].id) # <<>>
                                 /\ ChainIn(flat, flat[j].id)[1] \in page}}
        /\ getCommentsForPost(comments, post, [o EXCEPT !.limit = L, !.offset = off, !.maxDepth = 2])
             = Slice(getCommentsForPost(comments, post, [o EXCEPT !.maxDepth = 2]), off, off + L)

C21_Witness ==
  /\ \A p \in Clients : pc[p] = "done"
  /\ \E post \in Posts :
       LET o     == [DefaultOptions EXCEPT !.asTree = TRUE]
           full  == getCommentsForPost(comments, post, o)
           paged == getCommentsForPost(comments, post, [o EXCEPT !.limit = 1])
       IN  /\ Len(full) = 2
           /\ Len(paged) = 1
           /\ Len(paged[1].children) = 1

\* C22: an updateComment call changes at most content, author_name and updated_at of
\* the addressed comment (author_email and the sanitizer columns are not in the
\* model): id, post_id, parent_id, path, moderation_status, flags_count, reply_count,
\* is_deleted and every other comment stay as they were, whether the call succeeds
\* or not; a call with no field, with invalid content or with a blank author_name
\* returns INVALID_INPUT, and a call that returns an error changes nothing.
C22_UpdateFrame ==
  /\ [](\A c \in CommentIds, email \in BOOLEAN, content \in UpdateContentInputs,
            author \in UpdateAuthorInputs :
           (\/ content = <<>> /\ author = <<>> /\ ~email
            \/ content # <<>> /\ (content[1].body = 0 \/ content[1].body > MAX_LENGTH)
            \/ author # <<>> /\ author[1].body = 0)
             => UpdateCommentResult(comments, c, content, author, email) = "INVALID_INPUT")
  /\ [][ \A p \in Clients :
            (pc[p] = "start" /\ pc'[p] = "done") =>
              /\ DOMAIN comments' = Ids
              /\ res'[p] # "ok" => comments' = comments
              /\ Cardinality({c \in Ids : comments'[c] # comments[c]}) <= 1
              /\ \A c \in Ids :
                   comments'[c] = [comments[c] EXCEPT !.content = comments'[c].content,
                                                      !.author_name = comments'[c].author_name,
                                                      !.updated_at = comments'[c].updated_at]
        ]_vars

C22_Witness ==
  /\ \E p \in Clients : pc[p] = "done" /\ res[p] = "INVALID_INPUT"
  /\ \E p \in Clients : pc[p] = "done" /\ res[p] = "ok"
  /\ comments[2].content = Str(2, 7)
  /\ comments[2].author_name = Str(0, 4)
  /\ comments[2].updated_at > 1
  /\ comments[2].path = <<1, 2>>
  /\ comments[1] = ThreadOfTwo[1]

\* C23: moderateComment with action delete and notes soft-deletes first and leaves the
\* notes as they were until the second step; when the soft delete fails the call ends
\* there with the error and no comment written.  The second step always answers
\* success: the comment stays deleted, and its notes are either the new ones or, when
\* the UPDATE failed, the row is exactly as the soft delete left it.
C23_DeleteThenNotes ==
  [][ \A p \in Clients :
        /\ (pc[p] = "start" /\ pc'[p] # "start") =>
             \A c \in CommentIds, notes \in {1, 2} :
               ModerateCall(p, c, "delete", notes) =>
                 IF c \in Ids
                 THEN /\ pc'[p] = "moderationNotes" /\ res'[p] = "none"
                      /\ comments' = [comments EXCEPT ![c] = SoftDeleteRow(@, now)]
                      /\ comments'[c].is_deleted
                      /\ comments'[c].moderation_notes = comments[c].moderation_notes
                 ELSE /\ pc'[p] = "done" /\ res'[p] = "DELETE_FAILED"
                      /\ comments' = comments
        /\ (pc[p] = "moderationNotes" /\ pc'[p] = "done") =>
             /\ res'[p] = "ok"
             /\ DOMAIN comments' = Ids
             /\ \A d \in Ids \ {req[p].comment_id} : comments'[d] = comments[d]
             /\ req[p].comment_id \in Ids =>
                  LET old == comments[req[p].comment_id]
                      new == comments'[req[p].comment_id]
                  IN /\ new.is_deleted
                     /\ \/ new = old
                        \/ /\ new.moderation_notes = req[p].moderation_notes
                           /\ new = [old EXCEPT !.moderation_notes = new.moderation_notes,
                                                 !.updated_at = new.updated_at]
    ]_vars

\* both comments deleted by finished calls, one with its notes written and one whose
\* notes update failed, and a call that failed at the soft delete
C23_Witness ==
  /\ Ids = {1, 2}
  /\ \A p \in Clients : pc[p] = "done"
  /\ comments[1].is_deleted /\ comments[1].moderation_notes = NULL
  /\ comments[2].is_deleted /\ comments[2].moderation_notes = 2
  /\ \E p \in Clients : res[p] = "DELETE_FAILED"
  /\ Cardinality({p \in Clients : res[p] = "ok"}) >= 2

\* C24: a change of parent_id from O to N takes one from O.reply_count unless it is 0,
\* adds one to N.reply_count, gives the moved comment the path of N followed by its
\* id (or <<id>> when N is null), and leaves every other reply_count as it was.
C24_Reparent ==
  [][ \A c \in Ids, n \in {NULL} \cup Ids :
        UpdateParentId(c, n) =>
          LET O == comments[c].parent_id
          IN  /\ DOMAIN comments' = Ids
              /\ comments'[c].parent_id = n
              /\ O # NULL =>
                   comments'[O].reply_count =
                     IF comments[O].reply_count = 0 THEN 0 ELSE comments[O].reply_count - 1
              /\ n # NULL =>
                   /\ comments'[n].reply_count = comments[n].reply_count + 1
                   /\ comments'[c].path = Append(comments[n].path, c)
              /\ n = NULL => comments'[c].path = <<c>>
              /\ \A d \in Ids \ {O, n} : comments'[d].reply_count = comments[d].reply_count
              /\ \A d \in Ids : comments'[d].reply_count >= 0
    ]_vars

\* comment 2 moved under 1 and comment 3 under 2, with the count of 1 recomputed to 0
\* after the soft delete of 2: the next move of 2 meets the floor
C24_Witness ==
  /\ comments[2].parent_id = 1 /\ comments[2].path = <<1, 2>>
  /\ comments[3].parent_id = 2 /\ comments[3].path = <<1, 2, 3>>
  /\ comments[2].is_deleted
  /\ comments[1].reply_count = 0 /\ comments[2].reply_count = 1

\* C25: the removal of a flag row takes one from the comment's flags_count unless it
\* is 0, leaves its moderation_status (a comment escalated to flagged stays flagged)
\* and every other column but updated_at, and leaves all other comments.
C25_Unflag ==
  [][ \A k \in 1..Len(comment_flags) :
        RemoveFlag(k) =>
          LET c == comment_flags[k].comment_id
          IN  /\ Len(comment_flags') = Len(comment_flags) - 1
              /\ DOMAIN comments' = Ids
              /\ \A d \in Ids \ {c} : comments'[d] = comments[d]
              /\ c \in Ids =>
                   /\ comments'[c].flags_count =
                        IF comments[c].flags_count = 0 THEN 0 ELSE comments[c].flags_count - 1
                   /\ comments'[c].flags_count >= 0
                   /\ comments'[c].moderation_status = comments[c].moderation_status
                   /\ comments'[c] = [comments[c] EXCEPT !.flags_count = comments'[c].flags_count,
                                                         !.updated_at = comments'[c].updated_at]
    ]_vars

\* comment 2, approved at the start, escalated by three flags and left flagged with
\* none of them
C25_Witness ==
  /\ comments[2].moderation_status = "flagged"
  /\ comments[2].flags_count = 0
  /\ comment_flags = <<>>
  /\ Cardinality({p \in Clients : pc[p] = "done" /\ res[p] = "ok"}) >= 3

\* C26: when the backfill of the paths has run on a forest of comments with empty
\* paths, every top-level comment has the path <<id>> and every reply, at any depth,
\* the path of its parent followed by its id.
C26_BackfillPaths ==
  pc[1] = "done" =>
    \A c \in Ids :
      comments[c].path = IF comments[c].parent_id = NULL THEN <<c>>
                         ELSE Append(comments[comments[c].parent_id].path, c)

\* C27: a createComment whose parent is a soft-deleted comment of the same post
\* passes the parent lookup and its insert succeeds: the reply is stored with that
\* parent_id under the parent's path, the parent counts it and stays deleted.
C27_ReplyToDeleted ==
  [][ \A p \in Clients :
        LET parent == req[p].parent_id
        IN  (/\ parent \in Ids
             /\ comments[parent].is_deleted
             /\ comments[parent].post_id = req[p].post_id) =>
              /\ (pc[p] = "lookupParent" /\ pc'[p] # "lookupParent") =>
                   (pc'[p] = "insert" /\ req'[p] = req[p])
              /\ (pc[p] = "insert" /\ pc'[p] = "done") =>
                   /\ res'[p] = "ok"
                   /\ DOMAIN comments' = Ids \cup {nextId}
                   /\ comments'[nextId].parent_id = parent
                   /\ comments'[nextId].path = Append(comments[parent].path, nextId)
                   /\ ~comments'[nextId].is_deleted
                   /\ comments'[parent].is_deleted
                   /\ comments'[parent].reply_count = comments[parent].reply_count + 1
    ]_vars

\* two replies stored under the deleted comment 1 and a reply to one of them
C27_Witness ==
  /\ comments[1].is_deleted /\ comments[1].reply_count = 2
  /\ \A p \in Clients : pc[p] = "done" /\ res[p] = "ok"
  /\ Ids = {1, 2, 3, 4}
  /\ comments[2].parent_id = 1 /\ comments[2].path = <<1, 2>>
  /\ \E c \in {3, 4} : comments[c].parent_id = 2 /\ comments[c].path = <<1, 2, c>>

\* C28: an approval (moderateComment approve or changeCommentStatus approved) of a
\* comment with three or more flags makes it approved and leaves its flags_count;
\* while no flag is added it stays approved with that count; and the next flag row
\* added to it makes it flagged again with the count one higher.
C28_ApproveKeepsFlags ==
  [][ \A c \in Ids :
        comments[c].flags_count >= AUTO_FLAG_THRESHOLD =>
          /\ (\/ ChangeCommentStatus(c, "approved", NULL)
              \/ \E p \in Clients, notes \in {NULL, 1} : ModerateCall(p, c, "approve", notes)) =>
                /\ comments'[c].moderation_status = "approved"
                /\ comments'[c].flags_count = comments[c].flags_count
          /\ (comments[c].moderation_status = "approved" /\ comment_flags' = comment_flags) =>
                /\ comments'[c].moderation_status = "approved"
                /\ comments'[c].flags_count = comments[c].flags_count
          /\ (/\ comments[c].moderation_status = "approved"
              /\ Len(comment_flags') = Len(comment_flags) + 1
              /\ comment_flags'[Len(comment_flags')].comment_id = c) =>
                /\ comments'[c].moderation_status = "flagged"
                /\ comments'[c].flags_count = comments[c].flags_count + 1
    ]_vars

\* comment 1 approved with notes by a moderator and flagged again by one more user
C28_Witness ==
  /\ comments[1].moderation_notes = 1
  /\ comments[1].moderation_status = "flagged"
  /\ comments[1].flags_count = AUTO_FLAG_THRESHOLD + 1
  /\ Len(comment_flags) = AUTO_FLAG_THRESHOLD + 1
  /\ comment_flags[AUTO_FLAG_THRESHOLD + 1].flagged_by \in Users

\* a comment is shown when it is approved and not soft-deleted, and so is every
\* comment above it
RECURSIVE ShownWithAncestors(_)
ShownWithAncestors(c) ==
  /\ c \in Ids
  /\ comments[c].moderation_status = "approved"
  /\ ~comments[c].is_deleted
  /\ comments[c].parent_id # NULL => ShownWithAncestors(comments[c].parent_id)

C30_DeletedStaysDeleted ==
  [][ /\ \A c \in Ids :
           /\ c \in DOMAIN comments'
           /\ comments[c].is_deleted => comments'[c].is_deleted
      /\ \A p \in Clients :
           (pc[p] = "start" /\ pc'[p] = "done") =>
             \A c \in Ids, notes \in {NULL, 1} :
               (comments[c].is_deleted /\ ModerateCall(p, c, "approve", notes)) =>
                 /\ res'[p] = "ok"
                 /\ comments'[c].moderation_status = "approved"
                 /\ comments'[c].is_deleted
    ]_vars

\* the soft-deleted comment 1 approved with notes, edited and flagged, still deleted
C30_Witness ==
  /\ comments[1].is_deleted
  /\ comments[1].moderation_status = "approved"
  /\ comments[1].moderation_notes = 1
  /\ comments[1].content = Str(2, 7)
  /\ comments[1].flags_count = 1
  /\ \A p \in Clients : pc[p] = "done" /\ res[p] = "ok"

====
